---- MODULE Spec2Model ----
(***************************************************************************)
(* A model of ecs-images (src/main.go): one discovery pass over an ECS     *)
(* cluster.  main enumerates the services page by page, lists the tasks of *)
(* every service in a pool of goroutines bounded by a semaphore, describes *)
(* the tasks in batches, describes every task definition in a second       *)
(* bounded pool, and prints the image -> services mapping.                 *)
(*                                                                         *)
(* Strings that the program takes apart (service ARNs, service names) are  *)
(* sequences of one-character strings; task ARNs, task-definition ARNs and *)
(* image URIs are opaque to the program and are natural numbers here.      *)
(***************************************************************************)
EXTENDS Naturals, Sequences, FiniteSets, TLC

\* ---------------------------------------------------------------- constants

\* main.go:73 and main.go:143: sem := make(chan struct{}, 5)
SemCap == 5

\* main.go:111-112: the batch loop steps by 100
BatchSize == 100

\* ------------------------------------------------------------------- bounds

\* Number of services, and of task definitions, of the pool-stress cluster.
NStress == 6

\* Number of tasks of the large service of the multi-batch cluster.
BulkN == 100

\* Longest task list the batch loop is started on in SpecBatch.
MaxLen == 205

\* Longest service ARN of SpecArn, in characters.
MaxArnLen == 4

\* ------------------------------------------------------------------ helpers

Min(a, b) == IF a < b THEN a ELSE b

Range(s) == { s[k] : k \in 1..Len(s) }

\* A Go map as a function; the map literal make(map[..]..) is the empty one.
EmptyMap == <<>>

\* m[k] = v on a Go map.
MapPut(m, k, v) == [x \in DOMAIN m \cup {k} |-> IF x = k THEN v ELSE m[x]]

\* ----------------------------------------------------------------- splitArn

RECURSIVE SplitFrom(_, _, _, _)
\* The loop of splitArn at byte i (1-based), the current segment starting at
\* start (1-based), out the segments found so far.
SplitFrom(arn, i, start, out) ==
    IF i > Len(arn)
    THEN IF start <= Len(arn)
         THEN Append(out, SubSeq(arn, start, Len(arn)))
         ELSE out
    ELSE IF arn[i] = "/"
         THEN SplitFrom(arn, i + 1, i + 1, Append(out, SubSeq(arn, start, i - 1)))
         ELSE SplitFrom(arn, i + 1, start, out)

splitArn(arn) == SplitFrom(arn, 1, 1, <<>>)

\* parts[len(parts)-1] panics (index out of range) when parts is empty.
NamePanics(arn) == Len(splitArn(arn)) = 0

ShortName(arn) == LET parts == splitArn(arn) IN parts[Len(parts)]

\* ------------------------------------------------------------ the clusters

ArnCA == <<"c", "/", "a">>
ArnCB == <<"c", "/", "b">>
ArnDA == <<"d", "/", "a">>
NameA == <<"a">>
NameB == <<"b">>

Digits == <<"1", "2", "3", "4", "5", "6", "7", "8", "9">>

\* A cluster as the remote API presents it.  Every call's outcome is a fixed
\* function of its arguments:
\*   pages      the pages of ListServices, in order
\*   pageErr    the page whose request fails (0: none)
\*   tasks      service name -> the task ARNs ListTasks returns for it
\*   listErr    the service names for which ListTasks fails
\*   def        task ARN -> its task-definition ARN
\*   badTasks   DescribeTasks fails on a batch that holds one of these
\*   images     task-definition ARN -> the images of its containers, in order
\*   defErr     the task definitions for which DescribeTaskDefinition fails
\* A task belongs to one service (spec 3, Service 1-* Task): no task ARN is
\* listed under two service names.
Cluster(pages, pageErr, tasks, listErr, def, badTasks, images, defErr) ==
    [pages |-> pages, pageErr |-> pageErr, tasks |-> tasks, listErr |-> listErr,
     def |-> def, badTasks |-> badTasks, images |-> images, defErr |-> defErr]

SmallPages ==
    { << <<>> >>,
      << <<ArnCA, ArnCB>> >>,
      << <<ArnCA>>, <<ArnCB>> >>,
      << <<ArnCA, ArnDA>> >> }

\* The enumerations: the pages and the page that fails, if any.
SmallEnumerations ==
    { e \in SmallPages \X (0..2) : e[2] <= Len(e[1]) }

\* Two services a and b; a runs tasks 1 and 2, b runs task 3; task 3 runs
\* the definition of task 1 or that of task 2.
SmallClusters ==
    { Cluster(en[1], en[2],
              (NameA :> ta) @@ (NameB :> tb),
              le,
              (1 :> 1) @@ (2 :> 2) @@ (3 :> d3),
              bt,
              (1 :> <<1, 2>>) @@ (2 :> im2),
              de) :
        en \in SmallEnumerations,
        ta \in {<<>>, <<1, 2>>}, tb \in {<<>>, <<3>>},
        le \in {{}, {NameA}, {NameB}},
        d3 \in {1, 2}, bt \in {{}, {3}},
        im2 \in {<<>>, <<2>>, <<3>>},
        de \in {{}, {1}, {2}} }

\* NStress services; the first runs NStress tasks, each of a definition of
\* its own with one image of its own; the others run nothing.  No call fails.
StressArn(k) == <<"c", "/", Digits[k]>>

StressCluster ==
    Cluster(<< [k \in 1..NStress |-> StressArn(k)] >>, 0,
            [n \in { <<Digits[k]>> : k \in 1..NStress } |->
                IF n = <<Digits[1]>> THEN [t \in 1..NStress |-> t] ELSE <<>>],
            {},
            [t \in 1..NStress |-> t],
            {},
            [d \in 1..NStress |-> <<d>>],
            {})

\* Service a runs tasks 1..BulkN, the last of them of definition 2 and the
\* others of definition 1; service b runs task BulkN+1, which DescribeTasks
\* rejects (or not): more than one batch, and the batches depend on the
\* order in which the two ListTasks replies are merged.
BulkClusters ==
    { Cluster(<< <<ArnCA, ArnCB>> >>, 0,
              (NameA :> [t \in 1..BulkN |-> t]) @@ (NameB :> <<BulkN + 1>>),
              {},
              [t \in 1..(BulkN + 1) |-> IF t = BulkN THEN 2 ELSE 1],
              bt,
              (1 :> <<1>>) @@ (2 :> <<2>>),
              {}) : bt \in {{}, {BulkN + 1}} }

Clusters == SmallClusters \cup {StressCluster} \cup BulkClusters

\* -------------------------------------------------------------------- state

VARIABLES
    api,              \* the cluster the run inspects (never changes)
    pc,               \* where main is
    pageNo,           \* pages of ListServices fetched so far
    serviceArns,      \* main.go:46
    serviceNames,     \* main.go:60
    serviceNameToArn, \* main.go:61
    taskArns,         \* main.go:69
    taskToService,    \* main.go:70
    sem,              \* main.go:73, 143: the number of tokens in the channel
    wg,               \* main.go:74, 144: the WaitGroup's counter
    mu,               \* main.go:75, 145: the worker holding the mutex, 0: none
    bar,              \* main.go:76, 110, 142: the progress bar's count
    next,             \* the index of the next entry the pool-1 loop ranges over
    w1,               \* pool 1: entry index -> where its goroutine is
    batchStart,       \* main.go:111: i of the batch loop
    taskDefArns,      \* main.go:108
    taskDefToService, \* main.go:109
    imageToServices,  \* main.go:136
    taskDefList,      \* main.go:138: the entries the pool-2 loop has yet to range over
    w2,               \* pool 2: task definition -> where its goroutine is
    cont,             \* pool 2: task definition -> index of the container being merged
    listCalls,        \* history: entry index -> ListTasks calls issued for it
    describeCalls,    \* history: the batches DescribeTasks was called with, in order
    defCalls,         \* history: task definition -> DescribeTaskDefinition calls issued
    report,           \* the mapping the report loop printed (main.go:176)
    out,              \* what was printed: "", "NoServices", "NoTasks", "Report"
    exitCode          \* the process's exit status once it ended (-: still running)

vars == <<api, pc, pageNo, serviceArns, serviceNames, serviceNameToArn, taskArns,
          taskToService, sem, wg, mu, bar, next, w1, batchStart, taskDefArns,
          taskDefToService, imageToServices, taskDefList, w2, cont, listCalls,
          describeCalls, defCalls, report, out, exitCode>>

mainVars == <<pc, pageNo, serviceArns, serviceNames, serviceNameToArn>>
pool1Vars == <<taskArns, taskToService, next, w1, listCalls>>
batchVars == <<batchStart, taskDefArns, taskDefToService, describeCalls>>
pool2Vars == <<imageToServices, taskDefList, w2, cont, defCalls>>
syncVars == <<sem, wg, mu, bar>>
endVars == <<report, out, exitCode>>

\* The state at main.go:46, before the first page is asked for.
InitRun ==
    /\ pc = "listServices"
    /\ pageNo = 0
    /\ serviceArns = <<>>
    /\ serviceNames = <<>>
    /\ serviceNameToArn = EmptyMap
    /\ taskArns = <<>>
    /\ taskToService = EmptyMap
    /\ sem = 0 /\ wg = 0 /\ mu = 0 /\ bar = 0
    /\ next = 1
    /\ w1 = <<>>
    /\ batchStart = 0
    /\ taskDefArns = {}
    /\ taskDefToService = EmptyMap
    /\ imageToServices = EmptyMap
    /\ taskDefList = {}
    /\ w2 = EmptyMap
    /\ cont = EmptyMap
    /\ listCalls = <<>>
    /\ describeCalls = <<>>
    /\ defCalls = EmptyMap
    /\ report = EmptyMap
    /\ out = ""
    /\ exitCode = "-"

Init == api \in Clusters /\ InitRun

\* ------------------------------------------------------------ the remote API

ListServicesErr(n) == api.pageErr = n
ListServicesPageOf(n) == api.pages[n]

ListTasksErr(svcName) == svcName \in api.listErr
ListTasksResp(svcName) ==
    IF svcName \in DOMAIN api.tasks THEN api.tasks[svcName] ELSE <<>>

DescribeTasksErr(batch) == \E k \in 1..Len(batch) : batch[k] \in api.badTasks
DescribeTasksResp(batch) ==
    [k \in 1..Len(batch) |->
        [TaskArn |-> batch[k], TaskDefinitionArn |-> api.def[batch[k]]]]

DescribeTaskDefinitionErr(tdArn) == tdArn \in api.defErr
DescribeTaskDefinitionResp(tdArn) == api.images[tdArn]

\* --------------------------------------------------- stage 1: the services

\* ListServicesPage with a failed page skipped and the loop going on.
ListServicesPageSkip ==
    /\ pc = "listServices"
    /\ pageNo < Len(api.pages)
    /\ IF ListServicesErr(pageNo + 1)
       THEN UNCHANGED serviceArns
       ELSE serviceArns' = serviceArns \o ListServicesPageOf(pageNo + 1)
    /\ pageNo' = pageNo + 1
    /\ UNCHANGED <<pc, exitCode>>
    /\ UNCHANGED <<api, serviceNames, serviceNameToArn, pool1Vars, batchVars,
                   pool2Vars, syncVars, report, out>>

\* main.go:48-54: one turn of the paginator loop.
ListServicesPage ==
    /\ pc = "listServices"
    /\ pageNo < Len(api.pages)
    /\ IF ListServicesErr(pageNo + 1)
       THEN /\ pc' = "exit"
            /\ exitCode' = "1"
            /\ UNCHANGED <<pageNo, serviceArns>>
       ELSE /\ serviceArns' = serviceArns \o ListServicesPageOf(pageNo + 1)
            /\ pageNo' = pageNo + 1
            /\ UNCHANGED <<pc, exitCode>>
    /\ UNCHANGED <<api, serviceNames, serviceNameToArn, pool1Vars, batchVars,
                   pool2Vars, syncVars, report, out>>

\* main.go:55-58: no page is left and no service was found.
NoServices ==
    /\ pc = "listServices"
    /\ pageNo = Len(api.pages)
    /\ Len(serviceArns) = 0
    /\ out' = "NoServices"
    /\ pc' = "exit"
    /\ exitCode' = "0"
    /\ UNCHANGED <<api, pageNo, serviceArns, serviceNames, serviceNameToArn,
                   pool1Vars, batchVars, pool2Vars, syncVars, report>>

RECURSIVE NameToArn(_, _)
\* main.go:62-66: serviceNameToArn after the first n entries; a later entry
\* of the same name replaces an earlier one.
NameToArn(arns, n) ==
    IF n = 0 THEN EmptyMap
    ELSE MapPut(NameToArn(arns, n - 1), ShortName(arns[n]), arns[n])

\* main.go:60-76: the names of the services, and the first pool set up.
DeriveNames ==
    /\ pc = "listServices"
    /\ pageNo = Len(api.pages)
    /\ Len(serviceArns) > 0
    /\ IF \E k \in 1..Len(serviceArns) : NamePanics(serviceArns[k])
       THEN /\ pc' = "exit"
            /\ exitCode' = "2"
            /\ UNCHANGED <<serviceNames, serviceNameToArn, pool1Vars, syncVars>>
       ELSE /\ serviceNames' = [k \in 1..Len(serviceArns) |-> ShortName(serviceArns[k])]
            /\ serviceNameToArn' = NameToArn(serviceArns, Len(serviceArns))
            /\ taskArns' = <<>>
            /\ taskToService' = EmptyMap
            /\ sem' = 0 /\ wg' = 0 /\ mu' = 0
            /\ bar' = 0
            /\ next' = 1
            /\ w1' = [k \in 1..Len(serviceArns) |-> "idle"]
            /\ listCalls' = [k \in 1..Len(serviceArns) |-> 0]
            /\ pc' = "pool1"
            /\ UNCHANGED exitCode
    /\ UNCHANGED <<api, pageNo, serviceArns, batchVars, pool2Vars, report, out>>

\* ------------------------------------------- stage 2: the tasks (first pool)

\* The process is running: a goroutine takes no step after main returned.
Alive == pc # "exit"

\* The outcomes of an unsynchronized write: with another goroutine inside the
\* critical section the write is a data race and may be lost.
RaceOutcomes(racing, old, new) == IF racing THEN {old, new} ELSE {new}

\* Spawn1 without the wait for a free slot of sem.
Spawn1Unbounded ==
    /\ pc = "pool1"
    /\ next <= Len(serviceNames)
    /\ wg' = wg + 1
    /\ sem' = sem + 1
    /\ w1' = [w1 EXCEPT ![next] = "call"]
    /\ listCalls' = [listCalls EXCEPT ![next] = @ + 1]
    /\ next' = next + 1
    /\ UNCHANGED <<api, mainVars, taskArns, taskToService, mu, bar, batchVars,
                   pool2Vars, endVars>>

\* main.go:78-81: one turn of the loop: wg.Add(1), a token into sem (blocks
\* while 5 are in it), and the goroutine started on its ListTasks call.
Spawn1 ==
    /\ pc = "pool1"
    /\ next <= Len(serviceNames)
    /\ sem < SemCap
    /\ wg' = wg + 1
    /\ sem' = sem + 1
    /\ w1' = [w1 EXCEPT ![next] = "call"]
    /\ listCalls' = [listCalls EXCEPT ![next] = @ + 1]
    /\ next' = next + 1
    /\ UNCHANGED <<api, mainVars, taskArns, taskToService, mu, bar, batchVars,
                   pool2Vars, endVars>>

\* Reply1 with a failed call issued once more.
Reply1Retry(w) ==
    /\ Alive
    /\ w1[w] = "call"
    /\ IF ListTasksErr(serviceNames[w]) /\ listCalls[w] < 2
       THEN /\ listCalls' = [listCalls EXCEPT ![w] = @ + 1]
            /\ UNCHANGED w1
       ELSE /\ w1' = [w1 EXCEPT ![w] = IF ListTasksErr(serviceNames[w]) THEN "bar" ELSE "got"]
            /\ UNCHANGED listCalls
    /\ UNCHANGED <<api, mainVars, taskArns, taskToService, next,
                   syncVars, batchVars, pool2Vars, endVars>>

\* Reply1 with the reply merged whether or not the call failed.
Reply1IgnoreError(w) ==
    /\ Alive
    /\ w1[w] = "call"
    /\ w1' = [w1 EXCEPT ![w] = "got"]
    /\ UNCHANGED <<api, mainVars, taskArns, taskToService, next, listCalls,
                   syncVars, batchVars, pool2Vars, endVars>>

\* main.go:84-88: the reply to ListTasks arrives.
Reply1(w) ==
    /\ Alive
    /\ w1[w] = "call"
    /\ w1' = [w1 EXCEPT ![w] = IF ListTasksErr(serviceNames[w]) THEN "bar" ELSE "got"]
    /\ UNCHANGED <<api, mainVars, taskArns, taskToService, next, listCalls,
                   syncVars, batchVars, pool2Vars, endVars>>

\* Lock1 with mu.Lock() placed before the ListTasks call.
Lock1Early(w) ==
    /\ Alive
    /\ w1[w] = "call"
    /\ mu = 0
    /\ mu' = w
    /\ UNCHANGED <<api, mainVars, pool1Vars, sem, wg, bar, batchVars, pool2Vars,
                   endVars>>

\* main.go:89: mu.Lock()
Lock1(w) ==
    /\ Alive
    /\ w1[w] = "got"
    /\ mu = 0
    /\ mu' = w
    /\ w1' = [w1 EXCEPT ![w] = "locked"]
    /\ UNCHANGED <<api, mainVars, taskArns, taskToService, next, listCalls,
                   sem, wg, bar, batchVars, pool2Vars, endVars>>

\* PutTasks with the service's ARN stored in the place of its name.
PutTasksByArn(m, tasks, svcName) ==
    [t \in DOMAIN m \cup Range(tasks) |->
        IF t \in Range(tasks) THEN serviceNameToArn[svcName] ELSE m[t]]

\* main.go:91-93: taskToService[t] = svcName for every task ARN t of the reply.
PutTasks(m, tasks, svcName) ==
    [t \in DOMAIN m \cup Range(tasks) |-> IF t \in Range(tasks) THEN svcName ELSE m[t]]

\* main.go:90-94: the merge of the reply, and mu.Unlock()
Merge1(w) ==
    /\ Alive
    /\ w1[w] = "locked"
    /\ LET svcName == serviceNames[w]
           resp == ListTasksResp(svcName)
           racing == \E v \in DOMAIN w1 : v # w /\ w1[v] = "locked"
       IN  /\ taskArns' \in RaceOutcomes(racing, taskArns, taskArns \o resp)
           /\ taskToService' \in RaceOutcomes(racing, taskToService,
                                    PutTasks(taskToService, resp, svcName))
    /\ mu' = 0
    /\ w1' = [w1 EXCEPT ![w] = "bar"]
    /\ UNCHANGED <<api, mainVars, next, listCalls, sem, wg, bar, batchVars,
                   pool2Vars, endVars>>

\* main.go:96: bar.Add(1)
BarAdd1(w) ==
    /\ Alive
    /\ w1[w] = "bar"
    /\ bar' = bar + 1
    /\ w1' = [w1 EXCEPT ![w] = "rel"]
    /\ UNCHANGED <<api, mainVars, taskArns, taskToService, next, listCalls,
                   sem, wg, mu, batchVars, pool2Vars, endVars>>

\* Return1 without the deferred <-sem: the goroutine keeps its token.
Return1NoRelease(w) ==
    /\ Alive
    /\ w1[w] = "rel"
    /\ wg' = wg - 1
    /\ w1' = [w1 EXCEPT ![w] = "done"]
    /\ UNCHANGED <<api, mainVars, taskArns, taskToService, next, listCalls,
                   sem, mu, bar, batchVars, pool2Vars, endVars>>

\* main.go:82-83: the goroutine returns and its deferred calls run: <-sem
\* first, wg.Done() last.
Return1(w) ==
    /\ Alive
    /\ w1[w] = "rel"
    /\ sem' = sem - 1
    /\ wg' = wg - 1
    /\ w1' = [w1 EXCEPT ![w] = "done"]
    /\ UNCHANGED <<api, mainVars, taskArns, taskToService, next, listCalls,
                   mu, bar, batchVars, pool2Vars, endVars>>

\* Wait1 without wg.Wait().
Wait1NoWait ==
    /\ pc = "pool1"
    /\ next > Len(serviceNames)
    /\ pc' = "finish1"
    /\ UNCHANGED <<api, pageNo, serviceArns, serviceNames, serviceNameToArn,
                   pool1Vars, syncVars, batchVars, pool2Vars, endVars>>

\* main.go:99: the loop is over and wg.Wait() returns
Wait1 ==
    /\ pc = "pool1"
    /\ next > Len(serviceNames)
    /\ wg = 0
    /\ pc' = "finish1"
    /\ UNCHANGED <<api, pageNo, serviceArns, serviceNames, serviceNameToArn,
                   pool1Vars, syncVars, batchVars, pool2Vars, endVars>>

\* Finish1 without the return on an empty task list.
Finish1NoReturn ==
    /\ pc = "finish1"
    /\ taskDefArns' = {}
    /\ taskDefToService' = EmptyMap
    /\ bar' = 0
    /\ batchStart' = 0
    /\ pc' = "describe"
    /\ UNCHANGED <<describeCalls, out, exitCode>>
    /\ UNCHANGED <<api, pageNo, serviceArns, serviceNames, serviceNameToArn,
                   pool1Vars, sem, wg, mu, pool2Vars, report>>

\* main.go:100-110: bar.Finish(), the exit when no task was found, and the
\* batch loop set up.
Finish1 ==
    /\ pc = "finish1"
    /\ IF Len(taskArns) = 0
       THEN /\ out' = "NoTasks"
            /\ pc' = "exit"
            /\ exitCode' = "0"
            /\ bar' = Len(serviceNames)
            /\ UNCHANGED batchVars
       ELSE /\ taskDefArns' = {}
            /\ taskDefToService' = EmptyMap
            /\ bar' = 0
            /\ batchStart' = 0
            /\ pc' = "describe"
            /\ UNCHANGED <<describeCalls, out, exitCode>>
    /\ UNCHANGED <<api, pageNo, serviceArns, serviceNames, serviceNameToArn,
                   pool1Vars, sem, wg, mu, pool2Vars, report>>

\* ------------------------------------ stage 3: the task definitions (batches)

\* taskToService[k] on a Go map: the zero value "" for a missing key.
Lookup(m, k) == IF k \in DOMAIN m THEN m[k] ELSE <<>>

\* MergeTasks with the owner set made anew for every task (the last task of
\* a definition decides its owner).
MergeTasksOverwrite(m, tasks) ==
    LET defs == { tasks[k].TaskDefinitionArn : k \in 1..Len(tasks) }
        last(d) == CHOOSE k \in 1..Len(tasks) :
                      /\ tasks[k].TaskDefinitionArn = d
                      /\ \A j \in (k + 1)..Len(tasks) : tasks[j].TaskDefinitionArn # d
    IN  [d \in DOMAIN m \cup defs |->
            IF d \in defs THEN {Lookup(taskToService, tasks[last(d)].TaskArn)}
            ELSE m[d]]

\* MergeTasks with the owner looked up by the definition's ARN instead of
\* the task's.
MergeTasksWrongKey(m, tasks) ==
    LET defs == { tasks[k].TaskDefinitionArn : k \in 1..Len(tasks) }
    IN  [d \in DOMAIN m \cup defs |->
            (IF d \in DOMAIN m THEN m[d] ELSE {}) \cup
            (IF d \in defs THEN {Lookup(taskToService, d)} ELSE {})]

\* main.go:123-130: every task of the reply puts its definition into
\* taskDefToService (with an empty owner set when it is new) and its owning
\* service, looked up in taskToService, into the definition's owner set.
MergeTasks(m, tasks) ==
    LET defs == { tasks[k].TaskDefinitionArn : k \in 1..Len(tasks) }
        owners(d) == { Lookup(taskToService, tasks[k].TaskArn) :
                         k \in { j \in 1..Len(tasks) : tasks[j].TaskDefinitionArn = d } }
    IN  [d \in DOMAIN m \cup defs |->
            (IF d \in DOMAIN m THEN m[d] ELSE {}) \cup owners(d)]

\* BatchAt with the batch started one element early.
BatchAtOverlap(i) ==
    SubSeq(taskArns, IF i = 0 THEN 1 ELSE i, Min(i + BatchSize, Len(taskArns)))

\* main.go:112-115 and 118: taskArns[i:end]
BatchAt(i) == SubSeq(taskArns, i + 1, Min(i + BatchSize, Len(taskArns)))

\* DescribeBatch with the loop left at the first failed call (break in the
\* place of continue).
DescribeBatchBreak ==
    /\ pc = "describe"
    /\ batchStart < Len(taskArns)
    /\ LET batch == BatchAt(batchStart)
           resp == DescribeTasksResp(batch)
       IN  /\ describeCalls' = Append(describeCalls, batch)
           /\ IF DescribeTasksErr(batch)
              THEN /\ batchStart' = Len(taskArns)
                   /\ UNCHANGED <<taskDefArns, taskDefToService, bar>>
              ELSE /\ taskDefToService' = MergeTasks(taskDefToService, resp)
                   /\ taskDefArns' = taskDefArns \cup
                                       { resp[k].TaskDefinitionArn : k \in 1..Len(resp) }
                   /\ bar' = bar + 1
                   /\ batchStart' = batchStart + BatchSize
    /\ UNCHANGED <<api, mainVars, pool1Vars, sem, wg, mu, pool2Vars, endVars>>

\* main.go:111-132: one turn of the batch loop.
DescribeBatch ==
    /\ pc = "describe"
    /\ batchStart < Len(taskArns)
    /\ LET batch == BatchAt(batchStart)
           resp == DescribeTasksResp(batch)
       IN  /\ describeCalls' = Append(describeCalls, batch)
           /\ IF DescribeTasksErr(batch)
              THEN UNCHANGED <<taskDefArns, taskDefToService, bar>>
              ELSE /\ taskDefToService' = MergeTasks(taskDefToService, resp)
                   /\ taskDefArns' = taskDefArns \cup
                                       { resp[k].TaskDefinitionArn : k \in 1..Len(resp) }
                   /\ bar' = bar + 1
    /\ batchStart' = batchStart + BatchSize
    /\ UNCHANGED <<api, mainVars, pool1Vars, sem, wg, mu, pool2Vars, endVars>>

\* main.go:133-145: the batch loop is over; the second pool set up.  ranging
\* over the map taskDefArns gives taskDefList an order Go leaves open: the
\* pool's loop takes the definitions in any order.
EndDescribe ==
    /\ pc = "describe"
    /\ batchStart >= Len(taskArns)
    /\ imageToServices' = EmptyMap
    /\ taskDefList' = taskDefArns
    /\ bar' = 0
    /\ sem' = 0 /\ wg' = 0 /\ mu' = 0
    /\ w2' = [d \in taskDefArns |-> "idle"]
    /\ cont' = [d \in taskDefArns |-> 0]
    /\ defCalls' = [d \in taskDefArns |-> 0]
    /\ pc' = "pool2"
    /\ UNCHANGED <<api, pageNo, serviceArns, serviceNames, serviceNameToArn,
                   pool1Vars, batchVars, endVars>>

\* --------------------------------------------- stage 4: the images (second pool)

\* main.go:146-149: one turn of the loop: wg.Add(1), a token into sem, and
\* the goroutine started on its DescribeTaskDefinition call.
Spawn2(d) ==
    /\ pc = "pool2"
    /\ d \in taskDefList
    /\ sem < SemCap
    /\ wg' = wg + 1
    /\ sem' = sem + 1
    /\ w2' = [w2 EXCEPT ![d] = "call"]
    /\ defCalls' = [defCalls EXCEPT ![d] = @ + 1]
    /\ taskDefList' = taskDefList \ {d}
    /\ UNCHANGED <<api, mainVars, pool1Vars, batchVars, imageToServices, cont,
                   mu, bar, endVars>>

\* Reply2 with bar.Add(1) inside the err == nil branch.
Reply2NoBarOnError(d) ==
    /\ Alive
    /\ w2[d] = "call"
    /\ IF DescribeTaskDefinitionErr(d)
       THEN /\ w2' = [w2 EXCEPT ![d] = "rel"]
            /\ UNCHANGED cont
       ELSE IF Len(DescribeTaskDefinitionResp(d)) = 0
       THEN /\ w2' = [w2 EXCEPT ![d] = "bar"]
            /\ UNCHANGED cont
       ELSE /\ w2' = [w2 EXCEPT ![d] = "got"]
            /\ cont' = [cont EXCEPT ![d] = 1]
    /\ UNCHANGED <<api, mainVars, pool1Vars, batchVars, imageToServices,
                   taskDefList, defCalls, syncVars, endVars>>

\* Reply2 with the containers of the reply merged whether or not the call
\* failed.
Reply2IgnoreError(d) ==
    /\ Alive
    /\ w2[d] = "call"
    /\ IF Len(DescribeTaskDefinitionResp(d)) = 0
       THEN /\ w2' = [w2 EXCEPT ![d] = "bar"]
            /\ UNCHANGED cont
       ELSE /\ w2' = [w2 EXCEPT ![d] = "got"]
            /\ cont' = [cont EXCEPT ![d] = 1]
    /\ UNCHANGED <<api, mainVars, pool1Vars, batchVars, imageToServices,
                   taskDefList, defCalls, syncVars, endVars>>

\* main.go:152-158: the reply to DescribeTaskDefinition arrives; on success
\* the loop over the containers starts.
Reply2(d) ==
    /\ Alive
    /\ w2[d] = "call"
    /\ IF DescribeTaskDefinitionErr(d) \/ Len(DescribeTaskDefinitionResp(d)) = 0
       THEN /\ w2' = [w2 EXCEPT ![d] = "bar"]
            /\ UNCHANGED cont
       ELSE /\ w2' = [w2 EXCEPT ![d] = "got"]
            /\ cont' = [cont EXCEPT ![d] = 1]
    /\ UNCHANGED <<api, mainVars, pool1Vars, batchVars, imageToServices,
                   taskDefList, defCalls, syncVars, endVars>>

\* Lock2 without mutual exclusion (the merge not under the mutex).
Lock2NoExclusion(d) ==
    /\ Alive
    /\ w2[d] = "got"
    /\ mu' = d
    /\ w2' = [w2 EXCEPT ![d] = "locked"]
    /\ UNCHANGED <<api, mainVars, pool1Vars, batchVars, imageToServices,
                   taskDefList, cont, defCalls, sem, wg, bar, endVars>>

\* main.go:159: mu.Lock()
Lock2(d) ==
    /\ Alive
    /\ w2[d] = "got"
    /\ mu = 0
    /\ mu' = d
    /\ w2' = [w2 EXCEPT ![d] = "locked"]
    /\ UNCHANGED <<api, mainVars, pool1Vars, batchVars, imageToServices,
                   taskDefList, cont, defCalls, sem, wg, bar, endVars>>

\* PutOwners with the image's owner set replaced instead of extended.
PutOwnersOverwrite(m, image, services) == MapPut(m, image, services)

\* PutOwners with the owners inserted only when the image was already a key
\* (a new key is left with the empty set it was made with).
PutOwnersCreateOnly(m, image, services) ==
    MapPut(m, image, IF image \in DOMAIN m THEN m[image] \cup services ELSE {})

\* main.go:160-165: imageToServices[image] gets every owner of the definition.
PutOwners(m, image, services) ==
    MapPut(m, image, (IF image \in DOMAIN m THEN m[image] ELSE {}) \cup services)

\* Merge2 with the definition's owner set emptied once its last container
\* is merged.
Merge2Consume(d) ==
    /\ Alive
    /\ w2[d] = "locked"
    /\ LET containers == DescribeTaskDefinitionResp(d)
           image == containers[cont[d]]
           services == taskDefToService[d]
           racing == \E v \in DOMAIN w2 : v # d /\ w2[v] = "locked"
       IN  /\ imageToServices' \in RaceOutcomes(racing, imageToServices,
                                      PutOwners(imageToServices, image, services))
           /\ IF cont[d] < Len(containers)
              THEN /\ cont' = [cont EXCEPT ![d] = @ + 1]
                   /\ w2' = [w2 EXCEPT ![d] = "got"]
                   /\ UNCHANGED taskDefToService
              ELSE /\ w2' = [w2 EXCEPT ![d] = "bar"]
                   /\ taskDefToService' = [taskDefToService EXCEPT ![d] = {}]
                   /\ UNCHANGED cont
    /\ mu' = 0
    /\ UNCHANGED <<api, mainVars, pool1Vars, batchStart, taskDefArns, describeCalls,
                   taskDefList, defCalls, sem, wg, bar, endVars>>

\* main.go:160-166: the merge of one container's image, mu.Unlock(), and
\* the loop's next turn.
Merge2(d) ==
    /\ Alive
    /\ w2[d] = "locked"
    /\ LET containers == DescribeTaskDefinitionResp(d)
           image == containers[cont[d]]
           services == taskDefToService[d]
           racing == \E v \in DOMAIN w2 : v # d /\ w2[v] = "locked"
       IN  /\ imageToServices' \in RaceOutcomes(racing, imageToServices,
                                      PutOwners(imageToServices, image, services))
           /\ IF cont[d] < Len(containers)
              THEN /\ cont' = [cont EXCEPT ![d] = @ + 1]
                   /\ w2' = [w2 EXCEPT ![d] = "got"]
              ELSE /\ w2' = [w2 EXCEPT ![d] = "bar"]
                   /\ UNCHANGED cont
    /\ mu' = 0
    /\ UNCHANGED <<api, mainVars, pool1Vars, batchVars, taskDefList, defCalls,
                   sem, wg, bar, endVars>>

\* main.go:169: bar.Add(1)
BarAdd2(d) ==
    /\ Alive
    /\ w2[d] = "bar"
    /\ bar' = bar + 1
    /\ w2' = [w2 EXCEPT ![d] = "rel"]
    /\ UNCHANGED <<api, mainVars, pool1Vars, batchVars, imageToServices,
                   taskDefList, cont, defCalls, sem, wg, mu, endVars>>

\* main.go:150-151: the goroutine returns and its deferred calls run: <-sem
\* first, wg.Done() last.
Return2(d) ==
    /\ Alive
    /\ w2[d] = "rel"
    /\ sem' = sem - 1
    /\ wg' = wg - 1
    /\ w2' = [w2 EXCEPT ![d] = "done"]
    /\ UNCHANGED <<api, mainVars, pool1Vars, batchVars, imageToServices,
                   taskDefList, cont, defCalls, mu, bar, endVars>>

\* main.go:172: the loop is over and wg.Wait() returns
Wait2 ==
    /\ pc = "pool2"
    /\ taskDefList = {}
    /\ wg = 0
    /\ pc' = "finish2"
    /\ UNCHANGED <<api, pageNo, serviceArns, serviceNames, serviceNameToArn,
                   pool1Vars, batchVars, pool2Vars, syncVars, endVars>>

\* main.go:176-185: the images of the mapping m for which the report loop
\* takes the branch "No active services using this image".
NoActiveServices(m) == { image \in DOMAIN m : ~(Cardinality(m[image]) > 0) }

\* main.go:173-187: bar.Finish() and the report.
Report ==
    /\ pc = "finish2"
    /\ bar' = Cardinality(taskDefArns)
    /\ report' = imageToServices
    /\ out' = "Report"
    /\ pc' = "exit"
    /\ exitCode' = "0"
    /\ UNCHANGED <<api, pageNo, serviceArns, serviceNames, serviceNameToArn,
                   pool1Vars, batchVars, pool2Vars, sem, wg, mu>>

\* ------------------------------------------------------- the specification

Next ==
    \/ ListServicesPage
    \/ NoServices
    \/ DeriveNames
    \/ Spawn1
    \/ \E w \in DOMAIN w1 : Reply1(w)
    \/ \E w \in DOMAIN w1 : Lock1(w)
    \/ \E w \in DOMAIN w1 : Merge1(w)
    \/ \E w \in DOMAIN w1 : BarAdd1(w)
    \/ \E w \in DOMAIN w1 : Return1(w)
    \/ Wait1
    \/ Finish1
    \/ DescribeBatch
    \/ EndDescribe
    \/ \E d \in DOMAIN w2 : Spawn2(d)
    \/ \E d \in DOMAIN w2 : Reply2(d)
    \/ \E d \in DOMAIN w2 : Lock2(d)
    \/ \E d \in DOMAIN w2 : Merge2(d)
    \/ \E d \in DOMAIN w2 : BarAdd2(d)
    \/ \E d \in DOMAIN w2 : Return2(d)
    \/ Wait2
    \/ Report

Spec == Init /\ [][Next]_vars

\* The pool-stress cluster with DescribeTaskDefinition failing for every
\* definition but the first two: both loops have to wait for a slot of sem,
\* and the goroutines of two definitions contend for the mutex.
QueueCluster == [StressCluster EXCEPT !.defErr = 3..NStress]

FairClusters == SmallClusters \cup BulkClusters \cup {QueueCluster}

InitFair == api \in FairClusters /\ InitRun

\* The run over these clusters.
SpecQueue == InitFair /\ [][Next]_vars

\* The run under fair scheduling with every call returning: a step that can
\* be taken (a reply arriving, a goroutine or main going on) is not put off
\* for ever.
SpecFair == SpecQueue /\ WF_vars(Next)

\* The batch stage alone, on every task list of 1..MaxLen tasks: the state
\* in which Finish1 leaves a run over a cluster of one service that runs
\* these tasks, with no failing task, the first failing or the last.
BatchCluster(len, bad) ==
    Cluster(<< <<ArnCA>> >>, 0,
            NameA :> [t \in 1..len |-> t],
            {},
            [t \in 1..len |-> (t % 2) + 1],
            bad,
            (1 :> <<1>>) @@ (2 :> <<2>>),
            {})

AfterFinish1(len) ==
    /\ pc = "describe"
    /\ pageNo = 1
    /\ serviceArns = <<ArnCA>>
    /\ serviceNames = <<NameA>>
    /\ serviceNameToArn = (NameA :> ArnCA)
    /\ taskArns = [t \in 1..len |-> t]
    /\ taskToService = [t \in 1..len |-> NameA]
    /\ sem = 0 /\ wg = 0 /\ mu = 0 /\ bar = 0
    /\ next = 2
    /\ w1 = <<"done">>
    /\ batchStart = 0
    /\ taskDefArns = {}
    /\ taskDefToService = EmptyMap
    /\ imageToServices = EmptyMap
    /\ taskDefList = {}
    /\ w2 = EmptyMap
    /\ cont = EmptyMap
    /\ listCalls = <<1>>
    /\ describeCalls = <<>>
    /\ defCalls = EmptyMap
    /\ report = EmptyMap
    /\ out = ""
    /\ exitCode = "-"

InitBatch ==
    \E len \in 1..MaxLen :
        /\ api \in { BatchCluster(len, bad) : bad \in {{}, {1}, {len}} }
        /\ AfterFinish1(len)

NextBatch == DescribeBatch \/ EndDescribe

SpecBatch == InitBatch /\ [][NextBatch]_vars

\* The name derivation alone, on every service ARN of 1..MaxArnLen
\* characters out of two letters and the separator: a cluster of one
\* service that runs nothing.
ArnChars == {"a", "b", "/"}

Arns == UNION { [1..n -> ArnChars] : n \in 1..MaxArnLen }

ArnClusters ==
    { Cluster(<< <<arn>> >>, 0, EmptyMap, {}, EmptyMap, {}, EmptyMap, {}) : arn \in Arns }

InitArn == api \in ArnClusters /\ InitRun

NextArn == ListServicesPage \/ DeriveNames

SpecArn == InitArn /\ [][NextArn]_vars

\* ------------------------------------------------------------------- claims

\* A goroutine's action runs from its start to its return, when it gives
\* its token back to sem.
Running(wp) == { w \in DOMAIN wp : wp[w] \in {"call", "got", "locked", "bar", "rel"} }

AllDone(wp) == \A w \in DOMAIN wp : wp[w] = "done"

\* C1: in both bounded pools, in every reachable state, the number of
\* actions that have started and have not yet finished is at most 5.
C1_AtMostFiveRunning ==
    /\ Cardinality(Running(w1)) <= SemCap
    /\ Cardinality(Running(w2)) <= SemCap

\* C1 happens: the first pool ran more than 5 items, and the second pool has
\* 5 actions running while its loop still has a definition to start.
C1_Witness ==
    /\ pc = "pool2"
    /\ Len(serviceNames) > SemCap
    /\ Cardinality(Running(w2)) = SemCap
    /\ taskDefList # {}

\* Every DescribeTaskDefinition call succeeds and every definition declares
\* one image that no other definition declares.
UniqueImages ==
    \A d \in taskDefArns :
        /\ ~DescribeTaskDefinitionErr(d)
        /\ Len(DescribeTaskDefinitionResp(d)) = 1
        /\ \A e \in taskDefArns :
              DescribeTaskDefinitionResp(e) = DescribeTaskDefinitionResp(d) => e = d

\* C3: when every one of the N task definitions is described successfully
\* and declares one image of its own, the image mapping has a key for every
\* definition whose merge is over, and exactly N keys when the pool returns
\* and in the report.
C3_NoLostImage ==
    UniqueImages /\ pc \in {"pool2", "finish2", "exit"} /\ out \in {"", "Report"} =>
        /\ \A d \in DOMAIN w2 :
              w2[d] \in {"bar", "rel", "done"} =>
                  DescribeTaskDefinitionResp(d)[1] \in DOMAIN imageToServices
        /\ pc = "finish2" => Cardinality(DOMAIN imageToServices) = Cardinality(taskDefArns)
        /\ out = "Report" => Cardinality(DOMAIN report) = Cardinality(taskDefArns)

\* C3 happens: the report of a run over more definitions than the pool's
\* limit, each with an image of its own.
C3_Witness ==
    /\ out = "Report"
    /\ UniqueImages
    /\ Cardinality(taskDefArns) > SemCap
    /\ Cardinality(DOMAIN report) = Cardinality(taskDefArns)

\* C4: once main is past the first pool (a DescribeTasks call was issued, or
\* main is anywhere after wg.Wait() of the first pool) every ListTasks action
\* has been started and has completed; once main is past the second pool
\* (the report is started or printed) every DescribeTaskDefinition action has
\* been started and has completed.
C4_StagesSequenced ==
    /\ (Len(describeCalls) > 0 \/ pc \in {"finish1", "describe", "pool2", "finish2"}
            \/ out \in {"NoTasks", "Report"})
         => next > Len(serviceNames) /\ AllDone(w1)
    /\ (pc = "finish2" \/ out = "Report")
         => taskDefList = {} /\ AllDone(w2)

\* C4 happens: a report printed after two pools of several items each.
C4_Witness ==
    /\ out = "Report"
    /\ Len(serviceNames) >= 2
    /\ Cardinality(DOMAIN w2) >= 2
    /\ Len(describeCalls) >= 2

\* C5: every entry of the service-name list gets exactly one ListTasks call
\* (none before its goroutine starts, one from then on, and one when the pool
\* has returned), and every distinct task definition exactly one
\* DescribeTaskDefinition call, whether the call fails or not.
C5_EachItemOnce ==
    /\ DOMAIN listCalls = 1..Len(serviceNames)
    /\ \A k \in DOMAIN listCalls : listCalls[k] = IF w1[k] = "idle" THEN 0 ELSE 1
    /\ pc \in {"finish1", "describe", "pool2", "finish2"} =>
          \A k \in DOMAIN listCalls : listCalls[k] = 1
    /\ pc \in {"pool2", "finish2"} => DOMAIN defCalls = taskDefArns
    /\ \A d \in DOMAIN defCalls : defCalls[d] = IF w2[d] = "idle" THEN 0 ELSE 1
    /\ pc = "finish2" => \A d \in taskDefArns : defCalls[d] = 1

\* C5 happens: both pools have returned, and each had a call that failed and
\* a call that succeeded.
C5_Witness ==
    /\ pc = "finish2"
    /\ \E k \in 1..Len(serviceNames) : ListTasksErr(serviceNames[k])
    /\ \E k \in 1..Len(serviceNames) : ~ListTasksErr(serviceNames[k])
    /\ \E d \in taskDefArns : DescribeTaskDefinitionErr(d)
    /\ \E d \in taskDefArns : ~DescribeTaskDefinitionErr(d)

\* The items of a pool whose bar.Add(1) is over.
Counted(wp) == { w \in DOMAIN wp : wp[w] \in {"rel", "done"} }

\* C6: in each pool the progress counter is the number of items whose action
\* is over, failed or not, and equals the number of items when the pool
\* returns.
C6_ProgressOncePerItem ==
    /\ pc = "pool1" => bar = Cardinality(Counted(w1))
    /\ pc = "finish1" => bar = Len(serviceNames)
    /\ pc = "pool2" => bar = Cardinality(Counted(w2))
    /\ pc = "finish2" => bar = Cardinality(taskDefArns)

\* C6 happens: the second pool has returned after a failed and a successful
\* call, and the first pool had a failed call too.
C6_Witness ==
    /\ pc = "finish2"
    /\ bar = 2
    /\ \E d \in taskDefArns : DescribeTaskDefinitionErr(d)
    /\ \E d \in taskDefArns : ~DescribeTaskDefinitionErr(d)
    /\ \E k \in 1..Len(serviceNames) : ListTasksErr(serviceNames[k])

\* C7: in every reachable state the worker that owns the mutex is inside the
\* merge (it has its reply); no worker whose call is in flight owns it.
C7_NoLockAcrossCall ==
    /\ pc = "pool1" /\ mu # 0 => w1[mu] = "locked"
    /\ pc = "pool2" /\ mu # 0 => w2[mu] = "locked"
    /\ pc = "pool1" => \A w \in DOMAIN w1 : w1[w] = "call" => mu # w
    /\ pc = "pool2" => \A d \in DOMAIN w2 : w2[d] = "call" => mu # d

\* C7 happens: a worker of the second pool owns the mutex while the call of
\* another is in flight.
C7_Witness ==
    /\ pc = "pool2"
    /\ mu # 0
    /\ w2[mu] = "locked"
    /\ \E d \in DOMAIN w2 : w2[d] = "call"

\* The run with every reply merged in the order of the service-name list:
\* the task list, the reverse index, the batches, the owners of the
\* definitions and the report it ends with.
RECURSIVE RefTaskArns(_)
RefTaskArns(n) ==
    IF n = 0 THEN <<>>
    ELSE RefTaskArns(n - 1) \o
         (IF ListTasksErr(serviceNames[n]) THEN <<>> ELSE ListTasksResp(serviceNames[n]))

RefTasks == RefTaskArns(Len(serviceNames))

RefOwner(t) ==
    LET holders == { k \in 1..Len(serviceNames) :
                        /\ ~ListTasksErr(serviceNames[k])
                        /\ t \in Range(ListTasksResp(serviceNames[k])) }
        last == CHOOSE k \in holders : \A j \in holders : j <= k
    IN  serviceNames[last]

RefBatch(b) ==
    SubSeq(RefTasks, (b - 1) * BatchSize + 1, Min(b * BatchSize, Len(RefTasks)))

RefDescribed ==
    UNION { Range(RefBatch(b)) :
              b \in { c \in 1..Len(RefTasks) :
                        (c - 1) * BatchSize < Len(RefTasks) /\ ~DescribeTasksErr(RefBatch(c)) } }

RefDefOwners ==
    [d \in { api.def[t] : t \in RefDescribed } |->
        { RefOwner(t) : t \in { u \in RefDescribed : api.def[u] = d } }]

RefReport ==
    LET ok == { d \in DOMAIN RefDefOwners : ~DescribeTaskDefinitionErr(d) }
    IN  [i \in UNION { Range(DescribeTaskDefinitionResp(d)) : d \in ok } |->
            UNION { RefDefOwners[d] :
                      d \in { e \in ok : i \in Range(DescribeTaskDefinitionResp(e)) } }]

NoBatchFailed == \A k \in 1..Len(describeCalls) : ~DescribeTasksErr(describeCalls[k])

CeilDiv(len, d) == CHOOSE n \in 0..len : n * d >= len /\ (n = 0 \/ (n - 1) * d < len)

RECURSIVE Flatten(_)
Flatten(ss) == IF Len(ss) = 0 THEN <<>> ELSE Flatten(SubSeq(ss, 1, Len(ss) - 1)) \o ss[Len(ss)]

\* C8: the batches DescribeTasks is called with hold at most 100 task ARNs
\* each, their concatenation is the part of the task list the loop is past,
\* and when the loop is over there are ceil(L/100) of them and their
\* concatenation is the whole list of length L.
C8_BatchPartition ==
    /\ \A k \in 1..Len(describeCalls) :
          Len(describeCalls[k]) >= 1 /\ Len(describeCalls[k]) <= BatchSize
    /\ pc = "describe" =>
          Flatten(describeCalls) = SubSeq(taskArns, 1, Min(batchStart, Len(taskArns)))
    /\ pc = "pool2" =>
          /\ Len(describeCalls) = CeilDiv(Len(taskArns), BatchSize)
          /\ Flatten(describeCalls) = taskArns

\* C8 happens: the loop is over after three batches, the last one smaller,
\* one of them failed.
C8_Witness ==
    /\ pc = "pool2"
    /\ Len(describeCalls) = 3
    /\ Len(describeCalls[3]) < BatchSize
    /\ \E k \in 1..3 : DescribeTasksErr(describeCalls[k])

\* Every call the run issued succeeded.
CallsSucceed ==
    /\ api.pageErr = 0
    /\ \A k \in 1..Len(serviceNames) : ~ListTasksErr(serviceNames[k])
    /\ NoBatchFailed
    /\ \A d \in taskDefArns : ~DescribeTaskDefinitionErr(d)

\* C9: when every call succeeds, for services A and B that each run a task
\* of one task definition, every image of every container of that definition
\* is a key of the reported mapping and has A and B among its owners.
C9_OwnersUnioned ==
    out = "Report" /\ CallsSucceed =>
        \A A \in Range(serviceNames), B \in Range(serviceNames) :
            \A tA \in Range(ListTasksResp(A)), tB \in Range(ListTasksResp(B)) :
                api.def[tA] = api.def[tB] =>
                    \A i \in Range(DescribeTaskDefinitionResp(api.def[tA])) :
                        i \in DOMAIN report /\ {A, B} \subseteq report[i]

\* C9 happens: a report in which two services own both images of a
\* definition with two containers that each of them runs.
C9_Witness ==
    /\ out = "Report"
    /\ CallsSucceed
    /\ \E tA \in Range(ListTasksResp(NameA)), tB \in Range(ListTasksResp(NameB)) :
          /\ api.def[tA] = api.def[tB]
          /\ Len(DescribeTaskDefinitionResp(api.def[tA])) = 2
          /\ \A i \in Range(DescribeTaskDefinitionResp(api.def[tA])) :
                {NameA, NameB} \subseteq report[i]

\* A service owns an image of the mapping m.
Owns(m, n) == \E i \in DOMAIN m : n \in m[i]

\* A service has a running task whose definition declares an image.
RunsImage(n) ==
    \E t \in Range(ListTasksResp(n)) : Len(DescribeTaskDefinitionResp(api.def[t])) > 0

\* C10: in a run that ended with status 0 and in which every call succeeded,
\* an enumerated service owns an image of the final mapping if and only if
\* it has a running task whose definition declares an image.
C10_OwnerIffRunsImage ==
    pc = "exit" /\ exitCode = "0" /\ CallsSucceed =>
        \A k \in 1..Len(serviceNames) :
            Owns(imageToServices, serviceNames[k]) <=> RunsImage(serviceNames[k])

\* C10 happens: a report in which one service owns an image and another,
\* which runs a task of a definition without images, owns none.
C10_Witness ==
    /\ out = "Report"
    /\ CallsSucceed
    /\ Owns(report, NameA) /\ RunsImage(NameA)
    /\ NameB \in Range(serviceNames)
    /\ ListTasksResp(NameB) # <<>>
    /\ ~Owns(report, NameB) /\ ~RunsImage(NameB)

\* The services whose ListTasks call succeeds, and the tasks these calls
\* return.
Listed == { n \in Range(serviceNames) : ~ListTasksErr(n) }
ListedTasks == UNION { Range(ListTasksResp(n)) : n \in Listed }

\* The first pool is over and the run went on.
Pool1Over == pc \in {"finish1", "describe", "pool2", "finish2"} \/ out \in {"NoTasks", "Report"}

\* No call of the stages after the first pool fails.
LaterCallsSucceed ==
    \A t \in ListedTasks :
        t \notin api.badTasks /\ ~DescribeTaskDefinitionErr(api.def[t])

\* C11: a failing ListTasks call adds no task to the task list or to the
\* reverse index; once the first pool is over every task a successful
\* ListTasks call returned is in the task list and indexed under its
\* service; and when the later calls succeed the run reports every image of
\* such a task with that service among the owners.
C11_FailedListingSkipped ==
    LET listed == Listed
        listedTasks == ListedTasks
        inList == Range(taskArns)
    IN  /\ inList \subseteq listedTasks
        /\ DOMAIN taskToService \subseteq listedTasks
        /\ \A t \in DOMAIN taskToService : taskToService[t] \in listed
        /\ Pool1Over =>
              \A n \in listed : \A t \in Range(ListTasksResp(n)) :
                  /\ t \in inList
                  /\ t \in DOMAIN taskToService /\ taskToService[t] = n
        /\ pc = "exit" /\ Len(serviceNames) > 0 /\ listedTasks # {} /\ LaterCallsSucceed =>
              /\ out = "Report"
              /\ \A n \in listed : \A t \in Range(ListTasksResp(n)) :
                    \A i \in Range(DescribeTaskDefinitionResp(api.def[t])) :
                        i \in DOMAIN report /\ n \in report[i]

\* C11 happens: a report that shows the images of the task of service b,
\* after the ListTasks call of service a, which runs two tasks, failed.
C11_Witness ==
    /\ out = "Report"
    /\ LaterCallsSucceed
    /\ NameA \in Range(serviceNames) /\ ListTasksErr(NameA)
    /\ Len(ListTasksResp(NameA)) = 2
    /\ NameB \in Listed
    /\ \E t \in Range(ListTasksResp(NameB)) :
          /\ DescribeTaskDefinitionResp(api.def[t]) # <<>>
          /\ \A i \in Range(DescribeTaskDefinitionResp(api.def[t])) : NameB \in report[i]

\* The tasks of the batches whose DescribeTasks call succeeded, and the
\* owners these tasks give to their definitions.
MergedTasks ==
    UNION { Range(describeCalls[k]) :
              k \in { j \in 1..Len(describeCalls) : ~DescribeTasksErr(describeCalls[j]) } }

MergedDefOwners ==
    LET merged == MergedTasks
    IN  [d \in { api.def[t] : t \in merged } |->
            { taskToService[t] : t \in { u \in merged : api.def[u] = d } }]

\* The batch loop was entered.
BatchStage == pc \in {"describe", "pool2", "finish2"} \/ out = "Report"

\* C12: from the start of the batch loop on, the definitions recorded and
\* their owners are exactly those of the tasks of the batches whose call
\* succeeded (a failed batch adds neither), and when the loop is over every
\* batch of the task list, those after a failed one included, was issued.
C12_FailedBatchSkipped ==
    /\ BatchStage =>
          /\ taskDefToService = MergedDefOwners
          /\ taskDefArns = DOMAIN taskDefToService
    /\ BatchStage /\ pc # "describe" => Flatten(describeCalls) = taskArns

\* C12 happens: the loop is over, the first batch failed, the second was
\* merged, and a service whose only task was in the failed batch owns nothing.
C12_Witness ==
    /\ pc = "pool2"
    /\ Len(describeCalls) = 2
    /\ DescribeTasksErr(describeCalls[1])
    /\ ~DescribeTasksErr(describeCalls[2])
    /\ DOMAIN taskDefToService # {}
    /\ \E n \in Range(serviceNames) :
          /\ ListTasksResp(n) # <<>>
          /\ Range(ListTasksResp(n)) \subseteq Range(describeCalls[1])
          /\ \A d \in DOMAIN taskDefToService : n \notin taskDefToService[d]

\* The calls issued so far to ListTasks, DescribeTasks and
\* DescribeTaskDefinition.
NoListTasksCall == \A w \in DOMAIN listCalls : listCalls[w] = 0
NoDescribeTasksCall == describeCalls = <<>>
NoDescribeTaskDefinitionCall == \A d \in DOMAIN defCalls : defCalls[d] = 0

\* A page request of ListServices failed: the paginator reached the page
\* whose request fails.
PageFailed == pc = "exit" /\ pageNo < Len(api.pages) /\ ListServicesErr(pageNo + 1)

\* C13: a run over an enumeration with a failing page never gets past that
\* page, and once the request failed the run is over with status 1, having
\* issued no ListTasks, DescribeTasks or DescribeTaskDefinition call and
\* printed nothing.
C13_PageErrorAborts ==
    /\ api.pageErr # 0 =>
          /\ pageNo < api.pageErr
          /\ pc \in {"listServices", "exit"}
    /\ PageFailed =>
          /\ exitCode = "1"
          /\ NoListTasksCall /\ NoDescribeTasksCall /\ NoDescribeTaskDefinitionCall
          /\ serviceNames = <<>>
          /\ out = "" /\ report = EmptyMap
    /\ exitCode = "1" => PageFailed

\* C13 happens: the second page failed after the first had returned a
\* service, and the run is over with status 1.
C13_Witness ==
    /\ PageFailed
    /\ pageNo = 1
    /\ Len(serviceArns) > 0
    /\ exitCode = "1"

\* The enumeration is over (no page failed) and found no service.
NoServiceFound ==
    pc = "exit" /\ pageNo = Len(api.pages) /\ Len(serviceArns) = 0

\* Every service completed and the task list is empty.
NoTaskFound ==
    /\ pc \notin {"listServices", "pool1"}
    /\ Len(serviceNames) > 0
    /\ Len(taskArns) = 0

\* C14: a run that found no service ends with status 0 having issued no
\* ListTasks call and printed no report; a run whose task list is empty
\* when every service has completed issues no DescribeTasks and no
\* DescribeTaskDefinition call, prints no report and ends with status 0;
\* and a report is printed only by a run that went through both pools and
\* the batch loop to the reporting stage.
C14_EmptyResultsEndEarly ==
    /\ NoServiceFound =>
          /\ exitCode = "0" /\ out = "NoServices"
          /\ NoListTasksCall /\ serviceNames = <<>>
          /\ report = EmptyMap
    /\ NoTaskFound =>
          /\ AllDone(w1)
          /\ NoDescribeTasksCall /\ NoDescribeTaskDefinitionCall
          /\ out # "Report" /\ report = EmptyMap
          /\ pc \in {"finish1", "exit"}
          /\ pc = "exit" => exitCode = "0" /\ out = "NoTasks"
    /\ out = "Report" =>
          /\ pc = "exit" /\ exitCode = "0"
          /\ Len(serviceArns) > 0 /\ Len(taskArns) > 0
          /\ AllDone(w1) /\ AllDone(w2)
          /\ Flatten(describeCalls) = taskArns
    /\ report # EmptyMap => out = "Report"

\* C14 happens: a run over two services whose ListTasks calls were issued
\* and returned no task ended with status 0 and without a report.
C14_Witness ==
    /\ NoTaskFound
    /\ pc = "exit" /\ exitCode = "0" /\ out = "NoTasks"
    /\ Len(serviceNames) = 2
    /\ \A w \in DOMAIN listCalls : listCalls[w] = 1

\* The short names of the services the enumeration returned.
EnumeratedNames ==
    { ShortName(arn) : arn \in { a \in Range(serviceArns) : ~NamePanics(a) } }

\* C15: in every state every member of every owner set of taskDefToService,
\* of imageToServices and of the reported mapping is the short name of an
\* enumerated service, and every task of the task list is in the reverse
\* index, so that the lookup of a described task never yields the empty name.
C15_OwnersAreEnumerated ==
    /\ LET names == EnumeratedNames
       IN  /\ \A d \in DOMAIN taskDefToService : taskDefToService[d] \subseteq names
           /\ \A i \in DOMAIN imageToServices : imageToServices[i] \subseteq names
           /\ \A i \in DOMAIN report : report[i] \subseteq names
    /\ BatchStage =>
          \A k \in 1..Len(describeCalls) :
              LET resp == DescribeTasksResp(describeCalls[k])
              IN  \A j \in 1..Len(resp) :
                      /\ resp[j].TaskArn \in DOMAIN taskToService
                      /\ Lookup(taskToService, resp[j].TaskArn) # <<>>

\* C15 happens: a report with an image owned by both enumerated services,
\* after every task of the list was described.
C15_Witness ==
    /\ out = "Report"
    /\ NoBatchFailed
    /\ \E d \in DOMAIN taskDefToService : taskDefToService[d] = {NameA, NameB}
    /\ \E i \in DOMAIN report : report[i] = {NameA, NameB}
    /\ EnumeratedNames = {NameA, NameB}

\* The last non-empty segment of an ARN: the longest run of characters
\* other than the separator that ends at the last such character.
HasSegment(arn) == \E i \in 1..Len(arn) : arn[i] # "/"

LastNonEmptySegment(arn) ==
    LET last == CHOOSE i \in 1..Len(arn) :
                    arn[i] # "/" /\ \A j \in (i + 1)..Len(arn) : arn[j] = "/"
        first == CHOOSE i \in 1..last :
                    /\ \A j \in i..last : arn[j] # "/"
                    /\ i = 1 \/ arn[i - 1] = "/"
    IN  SubSeq(arn, first, last)

\* C16, as stated: once the enumeration is over, every service ARN that has
\* a non-empty segment got a short name, and that name is the ARN's last
\* non-empty segment.
C16_LastNonEmptySegment ==
    /\ pc # "listServices"
    /\ exitCode # "1"
    /\ \A k \in 1..Len(serviceArns) : HasSegment(serviceArns[k])
    => /\ Len(serviceNames) = Len(serviceArns)
       /\ \A k \in 1..Len(serviceArns) :
             serviceNames[k] = LastNonEmptySegment(serviceArns[k])

\* The cases of C16 in which the code does give the last non-empty segment:
\* an ARN with one separator at its end, and one with two separators in a
\* row before its last segment.
C16_Witness ==
    /\ pc = "pool1"
    /\ \/ serviceArns = << <<"a", "/", "b", "/">> >> /\ serviceNames = << <<"b">> >>
       \/ serviceArns = << <<"a", "/", "/", "b">> >> /\ serviceNames = << <<"b">> >>

\* The recorded task definitions whose DescribeTaskDefinition call succeeds,
\* and those of them that declare a given image.
DescribedDefs == { d \in taskDefArns : ~DescribeTaskDefinitionErr(d) }
Declaring(i) == { d \in DescribedDefs : i \in Range(DescribeTaskDefinitionResp(d)) }

\* The second pool was entered.
Pool2Stage == pc \in {"pool2", "finish2"} \/ out = "Report"

\* C17: in the second pool and after it, every key of imageToServices is an
\* image of a successfully described definition and its owners are owners of
\* such definitions (a definition whose call failed adds neither); and the
\* report is printed after one call for every recorded definition and holds
\* every image of every successfully described definition with all of that
\* definition's owners.
C17_FailedDefinitionSkipped ==
    /\ Pool2Stage =>
          \A i \in DOMAIN imageToServices :
              /\ Declaring(i) # {}
              /\ imageToServices[i] \subseteq UNION { taskDefToService[d] : d \in Declaring(i) }
    /\ out = "Report" =>
          /\ \A d \in taskDefArns : defCalls[d] = 1
          /\ \A d \in DescribedDefs :
                \A i \in Range(DescribeTaskDefinitionResp(d)) :
                    i \in DOMAIN report /\ taskDefToService[d] \subseteq report[i]

\* C17 happens: a report after the call for definition 1 failed and the one
\* for definition 2 succeeded; image 2, which both declare, is reported with
\* the owners of definition 2, and image 1, which only definition 1
\* declares, is not reported.
C17_Witness ==
    /\ out = "Report"
    /\ taskDefArns = {1, 2}
    /\ DescribeTaskDefinitionErr(1) /\ ~DescribeTaskDefinitionErr(2)
    /\ 2 \in Range(DescribeTaskDefinitionResp(1))
    /\ 2 \in Range(DescribeTaskDefinitionResp(2))
    /\ DOMAIN report = {2}
    /\ report[2] = taskDefToService[2]
    /\ taskDefToService[1] # taskDefToService[2]

\* C18: in every state every recorded task definition has at least one
\* owner and every key of imageToServices has at least one owner, and the
\* report loop takes the branch "No active services using this image" for
\* no image of the mapping it prints.
C18_NoUnownedImage ==
    /\ BatchStage => DOMAIN taskDefToService = taskDefArns
    /\ \A d \in DOMAIN taskDefToService : taskDefToService[d] # {}
    /\ \A i \in DOMAIN imageToServices : imageToServices[i] # {}
    /\ NoActiveServices(imageToServices) = {}
    /\ out = "Report" => NoActiveServices(report) = {}

\* C18 happens: a report with several images, one of them with a single
\* owner, after a definition with two containers was merged.
C18_Witness ==
    /\ out = "Report"
    /\ Cardinality(DOMAIN report) >= 2
    /\ \E i \in DOMAIN report : Cardinality(report[i]) = 1
    /\ \E d \in DOMAIN cont : cont[d] = 2

\* C20: no step taken while the second pool runs (from its set-up until
\* wg.Wait() has returned and the report is printed) changes
\* taskDefToService, taskArns or taskToService.
C20_Pool2LeavesInputs ==
    [][(pc \in {"pool2", "finish2"}) =>
          UNCHANGED <<taskDefToService, taskArns, taskToService>>]_vars

\* C20 happens: in the second pool a worker has read its definition's owner
\* set and waits for the mutex, which another worker holds, after an image
\* was merged.
C20_Witness ==
    /\ pc = "pool2"
    /\ DOMAIN imageToServices # {}
    /\ \E d \in DOMAIN w2, e \in DOMAIN w2 :
          /\ w2[d] = "got" /\ w2[e] = "locked"
          /\ taskDefToService[d] # {} /\ taskDefToService[e] # {}

\* The loop of a pool waits for a free slot of sem.
Blocked1 == pc = "pool1" /\ next <= Len(serviceNames) /\ sem = SemCap
Blocked2 == pc = "pool2" /\ taskDefList # {} /\ sem = SemCap

\* C19: under fair scheduling every run ends: main returns or the process
\* exits.  A run that ends has left every state in which a loop waits for a
\* slot of sem and every state in which main waits in wg.Wait().
C19_Terminates == <>(pc = "exit")

\* The steps of C19 one by one: a loop that waits for a slot of sem gets
\* one, and each pool's wg.Wait() returns.
C19_PoolsProgress ==
    /\ Blocked1 ~> ~Blocked1
    /\ Blocked2 ~> ~Blocked2
    /\ (pc = "pool1") ~> (pc = "finish1")
    /\ (pc = "pool2") ~> (pc = "finish2")

\* C19 happens: the first pool's wait has returned and the loop of the
\* second pool waits for a slot of sem, with five goroutines running.
C19_Witness ==
    /\ Blocked2
    /\ AllDone(w1)
    /\ Cardinality(Running(w2)) = SemCap

====
